---------------------------- MODULE Spec2Model ----------------------------
(***************************************************************************)
(* A model of bio_utils_rs: the FracMinHash sketch of canonical k-mers     *)
(* (src/src/kmers/kmerize.rs, src/src/kmers/hash.rs), the nucleotide        *)
(* tables and reverse complement (src/src/nucleotide), and the concurrent  *)
(* reverse index builder (src/src/simd_sketch/index.rs).                    *)
(*                                                                         *)
(* A u64 is a tuple of four 16-bit limbs, least significant first, because *)
(* TLC's integers are 32 bits wide; all u64 operators below are computed   *)
(* modulo 2^64 exactly as the Rust operators are.  A byte is its value in  *)
(* 0..255 and a sequence is a tuple of bytes.                              *)
(***************************************************************************)
EXTENDS Integers, Sequences, FiniteSets, TLC

-----------------------------------------------------------------------------
(* State *)

VARIABLES
    \* frac_min_hash: its arguments, the build profile, and its locals
    seq, kmer_size, ds_factor, overflow_checks,
    pc, pos, mask, shift,
    kmer_forward, kmer_reverse, valid_kmer_index, canonical_hashes,
    result,
    \* the number of the call of frac_min_hash and what the first call returned
    calls, first_result,
    \* build_reverse_index: the batch, the sketch of each sequence, the shared
    \* map and its shard locks, the per-sequence closures, and the return
    num_seqs, sketches, map, shard_lock, task, build_pc, returned,
    \* the sketcher of the build: a windowed strategy and its window size
    strategy, window_size,
    \* mm_hash64 on two keys side by side: the arguments, the local key of
    \* each call, and the number of statements done
    hash_x, hash_y, key_x, key_y, hash_pc,
    \* find_homopolymers: its arguments, its locals, and its return
    hp_seq, min_len, include_softmask, hp_i, hp_j, hps, hp_pc, hp_result,
    \* mean_error_and_phred: its argument, the position of the iterator, the
    \* terms of error_sum, and its return
    qual, qual_pos, error_sum, qual_pc, qual_result

sketch_vars ==
    <<seq, kmer_size, ds_factor, overflow_checks, pc, pos, mask, shift,
      kmer_forward, kmer_reverse, valid_kmer_index, canonical_hashes, result,
      calls, first_result>>

index_vars ==
    <<num_seqs, sketches, map, shard_lock, task, build_pc, returned,
      strategy, window_size>>

hash_vars == <<hash_x, hash_y, key_x, key_y, hash_pc>>

hp_vars ==
    <<hp_seq, min_len, include_softmask, hp_i, hp_j, hps, hp_pc, hp_result>>

qual_vars == <<qual, qual_pos, error_sum, qual_pc, qual_result>>

vars == <<sketch_vars, index_vars, hash_vars, hp_vars, qual_vars>>

-----------------------------------------------------------------------------
(* u64 arithmetic on 16-bit limbs *)

Limb == 2^16

\* the u64 with value n, for 0 <= n < 2^31
U64(n) == <<n % Limb, (n \div Limb) % Limb, 0, 0>>

U64_MAX == <<Limb - 1, Limb - 1, Limb - 1, Limb - 1>>

LimbAt(a, j) == IF j >= 1 /\ j <= 4 THEN a[j] ELSE 0

\* bitwise operators on 4-bit digits, tabulated once, then on limbs and u64s
RECURSIVE BitwiseBits(_, _, _, _)
BitwiseBits(op, x, y, n) ==
    IF n = 0 THEN 0
    ELSE LET a == x % 2
             b == y % 2
             r == CASE op = "and" -> a * b
                    [] op = "or"  -> IF a + b > 0 THEN 1 ELSE 0
                    [] op = "xor" -> (a + b) % 2
         IN  r + 2 * BitwiseBits(op, x \div 2, y \div 2, n - 1)

AndTable == [x \in 0..15 |-> [y \in 0..15 |-> BitwiseBits("and", x, y, 4)]]
OrTable  == [x \in 0..15 |-> [y \in 0..15 |-> BitwiseBits("or", x, y, 4)]]
XorTable == [x \in 0..15 |-> [y \in 0..15 |-> BitwiseBits("xor", x, y, 4)]]

BitwiseLimb(tbl, x, y) ==
    tbl[x % 16][y % 16]
    + 16 * tbl[(x \div 16) % 16][(y \div 16) % 16]
    + 256 * tbl[(x \div 256) % 16][(y \div 256) % 16]
    + 4096 * tbl[x \div 4096][y \div 4096]

Bitwise(tbl, a, b) ==
    <<BitwiseLimb(tbl, a[1], b[1]), BitwiseLimb(tbl, a[2], b[2]),
      BitwiseLimb(tbl, a[3], b[3]), BitwiseLimb(tbl, a[4], b[4])>>

BitAnd(a, b) == Bitwise(AndTable, a, b)
BitOr(a, b)  == Bitwise(OrTable, a, b)
BitXor(a, b) == Bitwise(XorTable, a, b)
BitNot(a) ==
    <<(Limb - 1) - a[1], (Limb - 1) - a[2], (Limb - 1) - a[3], (Limb - 1) - a[4]>>

\* a << n for 0 <= n <= 63: the bits shifted out of the 64 are lost
ShlLimb(a, i, q, r) ==
    (LimbAt(a, i - q) % 2^(16 - r)) * 2^r + (LimbAt(a, i - q - 1) \div 2^(16 - r))

Shl(a, n) ==
    LET q == n \div 16
        r == n % 16
    IN  <<ShlLimb(a, 1, q, r), ShlLimb(a, 2, q, r),
          ShlLimb(a, 3, q, r), ShlLimb(a, 4, q, r)>>

\* a >> n for 0 <= n <= 63 (logical shift)
ShrLimb(a, i, q, r) ==
    (LimbAt(a, i + q) \div 2^r) + (LimbAt(a, i + q + 1) % 2^r) * 2^(16 - r)

Shr(a, n) ==
    LET q == n \div 16
        r == n % 16
    IN  <<ShrLimb(a, 1, q, r), ShrLimb(a, 2, q, r),
          ShrLimb(a, 3, q, r), ShrLimb(a, 4, q, r)>>

WrappingAdd(a, b) ==
    LET s1 == a[1] + b[1]
        s2 == a[2] + b[2] + (s1 \div Limb)
        s3 == a[3] + b[3] + (s2 \div Limb)
        s4 == a[4] + b[4] + (s3 \div Limb)
    IN  <<s1 % Limb, s2 % Limb, s3 % Limb, s4 % Limb>>

WrappingSub(a, b) == WrappingAdd(WrappingAdd(a, BitNot(b)), U64(1))

Lt(a, b) ==
    \E i \in 1..4 : a[i] < b[i] /\ \A j \in (i + 1)..4 : a[j] = b[j]

Le(a, b) == a = b \/ Lt(a, b)

\* a / d for a small divisor 1 <= d < 2^14 (long division, limb by limb)
DivSmall(a, d) ==
    LET c4 == a[4]
        c3 == (c4 % d) * Limb + a[3]
        c2 == (c3 % d) * Limb + a[2]
        c1 == (c2 % d) * Limb + a[1]
    IN  <<c1 \div d, c2 \div d, c3 \div d, c4 \div d>>

-----------------------------------------------------------------------------
(* src/src/nucleotide/statics.rs *)

\* the table is indexed by the byte value; TLA+ tuples start at 1
NT_LOOKUP ==
    << 0, 1, 2, 3, 4, 4, 4, 4, 4, 4, 4, 4, 4, 4, 4, 4, 4, 4, 4, 4, 4, 4, 4, 4, 4, 4, 4, 4, 4, 4, 4, 4,
       4, 4, 4, 4, 4, 4, 4, 4, 4, 4, 4, 4, 4, 4, 4, 4, 4, 4, 4, 4, 4, 4, 4, 4, 4, 4, 4, 4, 4, 4, 4, 4,
       4, 0, 4, 1, 4, 4, 4, 2, 4, 4, 4, 4, 4, 4, 4, 4, 4, 4, 4, 4, 3, 3, 4, 4, 4, 4, 4, 4, 4, 4, 4, 4,
       4, 0, 4, 1, 4, 4, 4, 2, 4, 4, 4, 4, 4, 4, 4, 4, 4, 4, 4, 4, 3, 3, 4, 4, 4, 4, 4, 4, 4, 4, 4, 4,
       4, 4, 4, 4, 4, 4, 4, 4, 4, 4, 4, 4, 4, 4, 4, 4, 4, 4, 4, 4, 4, 4, 4, 4, 4, 4, 4, 4, 4, 4, 4, 4,
       4, 4, 4, 4, 4, 4, 4, 4, 4, 4, 4, 4, 4, 4, 4, 4, 4, 4, 4, 4, 4, 4, 4, 4, 4, 4, 4, 4, 4, 4, 4, 4,
       4, 4, 4, 4, 4, 4, 4, 4, 4, 4, 4, 4, 4, 4, 4, 4, 4, 4, 4, 4, 4, 4, 4, 4, 4, 4, 4, 4, 4, 4, 4, 4,
       4, 4, 4, 4, 4, 4, 4, 4, 4, 4, 4, 4, 4, 4, 4, 4, 4, 4, 4, 4, 4, 4, 4, 4, 4, 4, 4, 4, 4, 4, 4, 4 >>

\* mutant: the lower-case half of the table is taken as ambiguous
NtLookupUpperOnly(byte) == IF byte >= 96 THEN 4 ELSE NT_LOOKUP[byte + 1]

NtLookup(byte) == NT_LOOKUP[byte + 1]

-----------------------------------------------------------------------------
(* src/src/nucleotide/statics.rs: the table of error probabilities *)

\* line 4
PHRED_OFFSET == 33

\* line 7
MAX_PHRED_INDEX == 93

\* lines 31-39: an array of MAX_PHRED_INDEX + 1 entries, indexed from 0.  An
\* entry is an error probability 10^(-q/10); it is kept as its Phred score q,
\* so the entries below PHRED_OFFSET, which are 1.0, are 0
PHRED_TO_ERROR ==
    [i \in 0..MAX_PHRED_INDEX |->
        IF i < PHRED_OFFSET THEN 0 ELSE i - PHRED_OFFSET]

\* indexing an array outside 0..len-1 panics
InTable(table, index) == index \in DOMAIN table

-----------------------------------------------------------------------------
(* src/src/nucleotide/seq.rs *)

\* the match of reverse_complement on one byte (ASCII codes)
ComplementByte(nt) ==
    CASE nt = 65 -> 84      \* A => T
      [] nt = 67 -> 71      \* C => G
      [] nt = 71 -> 67      \* G => C
      [] nt = 84 -> 65      \* T => A
      [] nt = 82 -> 89      \* R => Y
      [] nt = 89 -> 82      \* Y => R
      [] nt = 83 -> 83      \* S => S
      [] nt = 87 -> 87      \* W => W
      [] nt = 75 -> 77      \* K => M
      [] nt = 77 -> 75      \* M => K
      [] nt = 66 -> 86      \* B => V
      [] nt = 68 -> 72      \* D => H
      [] nt = 72 -> 68      \* H => D
      [] nt = 86 -> 66      \* V => B
      [] nt = 78 -> 78      \* N => N
      [] OTHER -> 78        \* _ => N

reverse_complement(s) ==
    [i \in 1..Len(s) |-> ComplementByte(s[Len(s) + 1 - i])]

-----------------------------------------------------------------------------
(* src/src/kmers/hash.rs *)

\* mutant: line 8 without the addition, key = !(key << 21), which loses the
\* top 21 bits of the key
HashLineLossy(line, key) ==
    CASE line = 8  -> BitNot(Shl(key, 21))
      [] line = 9  -> BitXor(key, Shr(key, 24))
      [] line = 10 -> WrappingAdd(WrappingAdd(key, Shl(key, 3)), Shl(key, 8))
      [] line = 11 -> BitXor(key, Shr(key, 14))
      [] line = 12 -> WrappingAdd(WrappingAdd(key, Shl(key, 2)), Shl(key, 4))
      [] line = 13 -> BitXor(key, Shr(key, 28))
      [] line = 14 -> WrappingAdd(key, Shl(key, 31))

\* the statement of the given line of hash.rs (8..14), as a function of key
HashLine(line, key) ==
    CASE line = 8  -> BitNot(WrappingAdd(key, Shl(key, 21)))
      [] line = 9  -> BitXor(key, Shr(key, 24))
      [] line = 10 -> WrappingAdd(WrappingAdd(key, Shl(key, 3)), Shl(key, 8))
      [] line = 11 -> BitXor(key, Shr(key, 14))
      [] line = 12 -> WrappingAdd(WrappingAdd(key, Shl(key, 2)), Shl(key, 4))
      [] line = 13 -> BitXor(key, Shr(key, 28))
      [] line = 14 -> WrappingAdd(key, Shl(key, 31))

\* lines 6-16
mm_hash64(kmer) ==
    LET k1 == HashLine(8, kmer)
        k2 == HashLine(9, k1)
        k3 == HashLine(10, k2)
        k4 == HashLine(11, k3)
        k5 == HashLine(12, k4)
        k6 == HashLine(13, k5)
        k7 == HashLine(14, k6)
    IN  k7

-----------------------------------------------------------------------------
(* src/src/kmers/kmerize.rs *)

\* kmer_size - 1 as a 64-bit usize; it wraps at kmer_size = 0 when the build
\* has overflow checks off, and panics when it has them on
UsizeSub1(kmer_size_) == WrappingSub(U64(kmer_size_), U64(1))

\* line 25
KmerSizeTooLong(kmer_size_, s) == kmer_size_ > Len(s)

\* mutant: the upper limit is off by one
DsFactorOutOfRangeOffByOne(ds_factor_) == ds_factor_ = 0 \/ ds_factor_ >= 200

\* line 33
DsFactorOutOfRange(ds_factor_) == ds_factor_ = 0 \/ ds_factor_ > 200

\* lines 26-30: the message is kept as its literal pieces and its arguments
ErrKmerSize(kmer_size_, s) ==
    [tag |-> "Err", kind |-> "InvalidParameterError",
     msg |-> <<"kmer size ", kmer_size_,
               " cannot be longer than sequence len ", Len(s), ".">>]

\* lines 34-37
ErrDsFactor(ds_factor_) ==
    [tag |-> "Err", kind |-> "InvalidParameterError",
     msg |-> <<"downsampling factor ", ds_factor_, " must be in range 1-200.">>]

\* line 42
Nbits(kmer_size_) == kmer_size_ * 2

\* line 43: 1 << nbits overflows for nbits >= 64; with overflow checks it
\* panics, without them the shift amount is taken modulo 64
MaskOverflows(kmer_size_) == Nbits(kmer_size_) >= 64

MaskOf(kmer_size_) ==
    WrappingSub(Shl(U64(1), Nbits(kmer_size_) % 64), U64(1))

\* line 47: kmer_size - 1 overflows for kmer_size = 0
ShiftOverflows(kmer_size_) == kmer_size_ = 0

ShiftOf(kmer_size_) ==
    LET m == UsizeSub1(kmer_size_) IN WrappingAdd(m, m)

\* the amount of u64 << u64 without overflow checks: the low 6 bits
ShiftAmount(shift_) == shift_[1] % 64

\* mutant: the locals are not initialised by the call, they keep what the
\* previous call left in them
LoopInitStale ==
    [kmer_forward |-> kmer_forward, kmer_reverse |-> kmer_reverse,
     valid_kmer_index |-> valid_kmer_index, canonical_hashes |-> canonical_hashes]

\* lines 41, 46, 50, 51
LoopInit ==
    [kmer_forward |-> U64(0), kmer_reverse |-> U64(0),
     valid_kmer_index |-> 0, canonical_hashes |-> {}]

\* mutant: the window counts as full one base late, so the first window of a
\* run of valid bases is never emitted
WindowFullLate(valid_kmer_index_, kmer_size_) ==
    Le(U64(kmer_size_), U64(valid_kmer_index_))

\* line 70
WindowFull(valid_kmer_index_, kmer_size_) ==
    Le(UsizeSub1(kmer_size_), U64(valid_kmer_index_))

\* mutant: the test is inverted, the values above the threshold are kept
RetainedAbove(canonical, ds_factor_) ==
    Lt(DivSmall(U64_MAX, ds_factor_), canonical)

\* line 75
Retained(canonical, ds_factor_) ==
    Le(canonical, DivSmall(U64_MAX, ds_factor_))

\* lines 56-61: an ambiguous byte resets the window
ResetWindow(st) ==
    [st EXCEPT !.valid_kmer_index = 0,
               !.kmer_forward = U64(0),
               !.kmer_reverse = U64(0)]

\* line 64
NextForward(kmer_forward_, nt, mask_) ==
    BitAnd(BitOr(Shl(kmer_forward_, 2), U64(nt)), mask_)

\* lines 67-68
NextReverse(kmer_reverse_, nt, shift_) ==
    LET nt_rev == 3 - nt
    IN  BitOr(Shr(kmer_reverse_, 2), Shl(U64(nt_rev), ShiftAmount(shift_)))

\* lines 71-74
Canonical(kmer_forward_, kmer_reverse_) ==
    IF Lt(kmer_forward_, kmer_reverse_) THEN kmer_forward_ ELSE kmer_reverse_

\* lines 53-81: the closure of for_each, on one byte.  (With overflow checks
\* on, kmer_size - 1 and nt_rev << shift would panic here for kmer_size = 0
\* or > 32, but line 43 or 47 has panicked before the loop is entered.)
ConsumeByte(st, nt_char, kmer_size_, ds_factor_, mask_, shift_) ==
    LET nt == NtLookup(nt_char) IN
    IF nt >= 4 THEN ResetWindow(st)
    ELSE
        LET fwd == NextForward(st.kmer_forward, nt, mask_)
            rev == NextReverse(st.kmer_reverse, nt, shift_)
            canonical == Canonical(fwd, rev)
            insert == WindowFull(st.valid_kmer_index, kmer_size_)
                      /\ Retained(canonical, ds_factor_)
        IN  [kmer_forward |-> fwd,
             kmer_reverse |-> rev,
             valid_kmer_index |-> st.valid_kmer_index + 1,
             canonical_hashes |->
                 IF insert THEN st.canonical_hashes \cup {mm_hash64(canonical)}
                 ELSE st.canonical_hashes]

RECURSIVE ForEach(_, _, _, _, _, _, _)
ForEach(st, s, i, kmer_size_, ds_factor_, mask_, shift_) ==
    IF i > Len(s) THEN st
    ELSE LET next == ConsumeByte(st, s[i], kmer_size_, ds_factor_, mask_, shift_)
         IN  \* the test is always true: it makes TLC evaluate next here
             IF next.valid_kmer_index >= 0
             THEN ForEach(next, s, i + 1, kmer_size_, ds_factor_, mask_, shift_)
             ELSE next

\* lines 20-84, as a function of its arguments and of the build profile
frac_min_hash(kmer_size_, ds_factor_, s, checks) ==
    IF KmerSizeTooLong(kmer_size_, s) THEN ErrKmerSize(kmer_size_, s)
    ELSE IF DsFactorOutOfRange(ds_factor_) THEN ErrDsFactor(ds_factor_)
    ELSE IF checks /\ (MaskOverflows(kmer_size_) \/ ShiftOverflows(kmer_size_))
         THEN [tag |-> "Panic"]
    ELSE [tag |-> "Ok",
          hashes |-> ForEach(LoopInit, s, 1, kmer_size_, ds_factor_,
                             MaskOf(kmer_size_), ShiftOf(kmer_size_)).canonical_hashes]


-----------------------------------------------------------------------------
(* src/src/nucleotide/homopolymer.rs *)

\* u8::is_ascii_uppercase
IsAsciiUppercase(nt) == nt >= 65 /\ nt <= 90

\* lines 5-22; j > i at every call
valid_homopolymer(i, j, nt, min_hp_len, include_softmask_) ==
    LET long_enough == j - i >= min_hp_len
    IN  IF ~long_enough THEN FALSE
        ELSE IF include_softmask_ THEN TRUE
        ELSE IsAsciiUppercase(nt)

\* mutant: the scan stops one position early
OuterLoopCondStrict(i, seq_len, min_len_) == i < seq_len - min_len_

\* line 51; seq_len >= min_len here, so the subtraction does not wrap
OuterLoopCond(i, seq_len, min_len_) == i <= seq_len - min_len_

\* seq[i] of a slice, with Rust's 0-based index; the caller has checked InBounds
InBounds(s, i) == i >= 0 /\ i < Len(s)
At(s, i) == s[i + 1]


-----------------------------------------------------------------------------
(* src/src/simd_sketch/index.rs: the operations on the shared map *)

\* mutant: the capacity is one bit short
WithCapacityShort(bits) == [length |-> bits - 1, ones |-> {}]

\* line 21: FixedBitSet::with_capacity(num_seqs), a bitset of num_seqs zero bits
WithCapacity(bits) == [length |-> bits, ones |-> {}]

\* mutant: set(i, true) clears every other bit of the bitset
SetBitAlone(bitset, i) == [bitset EXCEPT !.ones = {i}]

\* lines 19, 22: FixedBitSet::set(i, true)
SetBit(bitset, i) == [bitset EXCEPT !.ones = @ \cup {i}]

\* FixedBitSet::set asserts that the bit is inside the bitset
SetBitInRange(bitset, i) == i < bitset.length

\* mutant: the closure of or_insert_with forgets bitset.set(i, true)
FreshBitsetUnset(i, num_seqs_) == [length |-> num_seqs_, ones |-> {}]

\* lines 20-24: the closure of or_insert_with
FreshBitset(i, num_seqs_) == SetBit(WithCapacity(num_seqs_), i)

\* mutant: and_modify replaces the bitset by a fresh one with only bit i
UpsertReplace(m, h, i, num_seqs_, kind) ==
    [k \in DOMAIN m \cup {h} |->
        IF k = h THEN [length |-> num_seqs_, ones |-> {i}] ELSE m[k]]

\* lines 18-24: what entry(h).and_modify(..).or_insert_with(..) leaves in the
\* map m, for the entry kind that entry(h) found
Upsert(m, h, i, num_seqs_, kind) ==
    IF kind = "Occupied"
    THEN [m EXCEPT ![h] = SetBit(@, i)]
    ELSE [k \in DOMAIN m \cup {h} |->
            IF k = h THEN FreshBitset(i, num_seqs_) ELSE m[k]]

\* line 18: the kind of entry that map.entry(h) finds
EntryKind(m, h) == IF h \in DOMAIN m THEN "Occupied" ELSE "Vacant"


-----------------------------------------------------------------------------
(* Bounds and inputs *)

\* longest sequence of the exhaustive input set
MaxLen == 3

\* most sequences in a batch, and most distinct hash values a sketch draws from
MaxSeqs == 2
MaxHashes == 2

\* longest sequence of the exhaustive input set of find_homopolymers
MaxHpLen == 4

\* shards of the concurrent map, fixed when the map is constructed; keys h
\* and h + NumShards share a shard
NumShards == 2

Ascii(ch) ==
    CASE ch = "A" -> 65 [] ch = "C" -> 67 [] ch = "G" -> 71 [] ch = "T" -> 84
      [] ch = "U" -> 85 [] ch = "N" -> 78 [] ch = "R" -> 82 [] ch = "Y" -> 89
      [] ch = "X" -> 88
      [] ch = "a" -> 97 [] ch = "c" -> 99 [] ch = "g" -> 103 [] ch = "t" -> 116
      [] ch = "u" -> 117

Bytes(chars) == SubSeq([i \in 1..Len(chars) |-> Ascii(chars[i])], 1, Len(chars))

Repeat(ch, n) == [i \in 1..n |-> ch]

\* every sequence over A, C, T, N of length 0..MaxLen
Alphabet == {"A", "C", "T", "N"}

ShortSeqs ==
    UNION {{Bytes(s) : s \in [1..n -> Alphabet]} : n \in 0..MaxLen}

\* the sequences of the tests of kmerize.rs (lines 92-95, 106-107), sequences
\* with lower-case bases, U and IUPAC codes, and sequences long enough for
\* k-mer sizes 31, 32 and 33
NamedSeqs ==
    { Bytes(Repeat("A", 8)),
      Bytes(Repeat("A", 7) \o <<"C">>),
      Bytes(<<"A", "T", "C", "G", "A", "T", "C", "G", "A", "T", "C", "G">>),
      Bytes(<<"A", "T", "C", "N", "A", "T", "C", "N", "A", "T", "C", "N">>),
      Bytes(Repeat("T", 8)),
      Bytes(Repeat("A", 9) \o <<"T">>),
      Bytes(<<"A">> \o Repeat("T", 9)),
      Bytes(<<"a", "c", "g", "t", "a">>),
      Bytes(<<"A", "U", "G", "u", "C">>),
      Bytes(<<"A", "R", "Y", "X", "C", "G", "T", "A">>),
      Bytes(Repeat("C", 33)),
      Bytes(<<"A">> \o Repeat("C", 32)),
      Bytes(Repeat("G", 16) \o Repeat("T", 17)),
      Bytes(Repeat("A", 31) \o <<"N", "A", "C">>) }

Seqs == ShortSeqs \cup NamedSeqs

KmerSizes == {0, 1, 2, 3, 4, 31, 32, 33}

DsFactors == {0, 1, 2, 20, 200, 201}

Hashes == 1..MaxHashes

\* arguments of mm_hash64: the values of its tests (0, 1, 42), small values,
\* single high bits, values that differ only in bits that a left shift of
\* lines 8-14 drops, and all ones
HashInputs ==
    { U64(0), U64(1), U64(2), U64(3), U64(42),
      <<0, 32, 0, 0>>,          \* 2^21
      <<0, 0, 1, 0>>,           \* 2^32
      <<0, 0, 2048, 0>>,        \* 2^43
      <<0, 0, 0, 32768>>,       \* 2^63
      <<1, 0, 0, 32768>>,       \* 2^63 + 1
      <<21845, 21845, 21845, 5461>>,   \* the 31-mer of C
      U64_MAX }

SeqIds(n) == 0..(n - 1)

\* find_homopolymers: every sequence over A, C, a of length 0..MaxHpLen, the
\* sequences of its test (homopolymer.rs lines 136-140), and every min_len
\* from 0 to one more than MaxHpLen
HpAlphabet == {"A", "C", "a"}

HpSeqs ==
    UNION {{Bytes(s) : s \in [1..n -> HpAlphabet]} : n \in 0..MaxHpLen}
    \cup { Bytes(<<"A", "T", "C", "G">>),
           Bytes(<<"a", "a", "a", "a">>),
           Bytes(<<"A", "T", "G", "G", "G", "G", "G", "C", "G",
                   "c", "c", "c", "c", "A", "G", "T">>) }

MinLens == 0..(MaxHpLen + 1)

\* quality strings: the bytes below the offset, the lowest and a usual score
\* ('!' and 'I'), the last index of the table (Phred 60), the first byte past
\* it, the highest printable score ('~') and the highest byte
MaxQualLen == 2

QualBytes == {0, 32, 33, 73, 93, 94, 126, 255}

Quals == UNION {[1..n -> QualBytes] : n \in 0..MaxQualLen}

-----------------------------------------------------------------------------
(* The locals of frac_min_hash as one record *)

\* the locals of the loop as one record, as ConsumeByte takes them
Locals ==
    [kmer_forward |-> kmer_forward, kmer_reverse |-> kmer_reverse,
     valid_kmer_index |-> valid_kmer_index, canonical_hashes |-> canonical_hashes]


-----------------------------------------------------------------------------
(* frac_min_hash, statement by statement (src/src/kmers/kmerize.rs) *)

SketchIdle ==
    /\ seq = <<>> /\ kmer_size = 0 /\ ds_factor = 0 /\ overflow_checks = FALSE
    /\ pc = "idle" /\ pos = 0 /\ mask = U64(0) /\ shift = U64(0)
    /\ kmer_forward = U64(0) /\ kmer_reverse = U64(0)
    /\ valid_kmer_index = 0 /\ canonical_hashes = {}
    /\ result = [tag |-> "None"]
    /\ calls = 0 /\ first_result = [tag |-> "None"]

IndexIdle ==
    /\ num_seqs = 0 /\ sketches = <<>> /\ map = <<>> /\ shard_lock = <<>>
    /\ task = <<>> /\ build_pc = "idle" /\ returned = <<>>
    /\ strategy = "None" /\ window_size = 0

HashIdle ==
    /\ hash_x = U64(0) /\ hash_y = U64(0) /\ key_x = U64(0) /\ key_y = U64(0)
    /\ hash_pc = 0

HpIdle ==
    /\ hp_seq = <<>> /\ min_len = 0 /\ include_softmask = FALSE
    /\ hp_i = 0 /\ hp_j = 0 /\ hps = <<>> /\ hp_pc = "idle"
    /\ hp_result = [tag |-> "None"]

QualIdle ==
    /\ qual = <<>> /\ qual_pos = 0 /\ error_sum = <<>> /\ qual_pc = "idle"
    /\ qual_result = [tag |-> "None"]

\* a call of frac_min_hash(kmer_size, ds_factor, seq), in a build with or
\* without integer overflow checks
InitSketch ==
    /\ seq \in Seqs
    /\ kmer_size \in KmerSizes
    /\ ds_factor \in DsFactors
    /\ overflow_checks \in BOOLEAN
    /\ pc = "check_kmer_size" /\ pos = 0 /\ mask = U64(0) /\ shift = U64(0)
    /\ kmer_forward = U64(0) /\ kmer_reverse = U64(0)
    /\ valid_kmer_index = 0 /\ canonical_hashes = {}
    /\ result = [tag |-> "None"]
    /\ calls = 1 /\ first_result = [tag |-> "None"]
    /\ IndexIdle /\ HashIdle /\ HpIdle /\ QualIdle

\* lines 25-31
CheckKmerSize ==
    /\ pc = "check_kmer_size"
    /\ IF KmerSizeTooLong(kmer_size, seq)
       THEN /\ result' = ErrKmerSize(kmer_size, seq)
            /\ pc' = "returned"
       ELSE /\ pc' = "check_ds_factor"
            /\ UNCHANGED result
    /\ UNCHANGED <<seq, kmer_size, ds_factor, overflow_checks, pos, mask, shift,
                   kmer_forward, kmer_reverse, valid_kmer_index, canonical_hashes>>
    /\ UNCHANGED <<calls, first_result>>
    /\ UNCHANGED <<index_vars, hash_vars, hp_vars, qual_vars>>

\* lines 33-38
CheckDsFactor ==
    /\ pc = "check_ds_factor"
    /\ IF DsFactorOutOfRange(ds_factor)
       THEN /\ result' = ErrDsFactor(ds_factor)
            /\ pc' = "returned"
       ELSE /\ pc' = "setup"
            /\ UNCHANGED result
    /\ UNCHANGED <<seq, kmer_size, ds_factor, overflow_checks, pos, mask, shift,
                   kmer_forward, kmer_reverse, valid_kmer_index, canonical_hashes>>
    /\ UNCHANGED <<calls, first_result>>
    /\ UNCHANGED <<index_vars, hash_vars, hp_vars, qual_vars>>

\* lines 40-51: with overflow checks, 1 << nbits and kmer_size - 1 panic when
\* they overflow; without them they wrap
Setup ==
    /\ pc = "setup"
    /\ IF overflow_checks /\ (MaskOverflows(kmer_size) \/ ShiftOverflows(kmer_size))
       THEN /\ pc' = "panicked"
            /\ result' = [tag |-> "Panic"]
            /\ UNCHANGED <<mask, shift, kmer_forward, kmer_reverse,
                           valid_kmer_index, canonical_hashes>>
       ELSE /\ pc' = "for_each"
            /\ mask' = MaskOf(kmer_size)
            /\ shift' = ShiftOf(kmer_size)
            /\ kmer_forward' = LoopInit.kmer_forward
            /\ kmer_reverse' = LoopInit.kmer_reverse
            /\ valid_kmer_index' = LoopInit.valid_kmer_index
            /\ canonical_hashes' = LoopInit.canonical_hashes
            /\ UNCHANGED result
    /\ UNCHANGED <<seq, kmer_size, ds_factor, overflow_checks, pos>>
    /\ UNCHANGED <<calls, first_result>>
    /\ UNCHANGED <<index_vars, hash_vars, hp_vars, qual_vars>>

\* lines 53-81: one call of the closure, on the next byte of seq
ForEachByte ==
    /\ pc = "for_each"
    /\ pos < Len(seq)
    /\ \E next \in {ConsumeByte(Locals, seq[pos + 1], kmer_size, ds_factor, mask, shift)} :
           /\ kmer_forward' = next.kmer_forward
           /\ kmer_reverse' = next.kmer_reverse
           /\ valid_kmer_index' = next.valid_kmer_index
           /\ canonical_hashes' = next.canonical_hashes
    /\ pos' = pos + 1
    /\ UNCHANGED <<seq, kmer_size, ds_factor, overflow_checks, pc, mask, shift, result>>
    /\ UNCHANGED <<calls, first_result>>
    /\ UNCHANGED <<index_vars, hash_vars, hp_vars, qual_vars>>

\* line 83
ReturnOk ==
    /\ pc = "for_each"
    /\ pos = Len(seq)
    /\ result' = [tag |-> "Ok", hashes |-> canonical_hashes]
    /\ pc' = "returned"
    /\ UNCHANGED <<seq, kmer_size, ds_factor, overflow_checks, pos, mask, shift,
                   kmer_forward, kmer_reverse, valid_kmer_index, canonical_hashes>>
    /\ UNCHANGED <<calls, first_result>>
    /\ UNCHANGED <<index_vars, hash_vars, hp_vars, qual_vars>>

NextSketch ==
    \/ CheckKmerSize
    \/ CheckDsFactor
    \/ Setup
    \/ ForEachByte
    \/ ReturnOk

SpecSketch == InitSketch /\ [][NextSketch]_vars


\* a call of frac_min_hash(1, 1, [b]) for each of the 256 byte values b: the
\* encoder on every entry of NT_LOOKUP
InitLookup ==
    /\ seq \in {<<b>> : b \in 0..255}
    /\ kmer_size = 1
    /\ ds_factor = 1
    /\ overflow_checks \in BOOLEAN
    /\ pc = "check_kmer_size" /\ pos = 0 /\ mask = U64(0) /\ shift = U64(0)
    /\ kmer_forward = U64(0) /\ kmer_reverse = U64(0)
    /\ valid_kmer_index = 0 /\ canonical_hashes = {}
    /\ result = [tag |-> "None"]
    /\ calls = 1 /\ first_result = [tag |-> "None"]
    /\ IndexIdle /\ HashIdle /\ HpIdle /\ QualIdle

SpecLookup == InitLookup /\ [][NextSketch]_vars

\* lines 20-24: frac_min_hash is called a second time with the arguments of
\* the first call, in the same process; the locals of the new call hold
\* whatever the stack holds until lines 40-51 assign them
CallAgain ==
    /\ pc \in {"returned", "panicked"}
    /\ calls = 1
    /\ calls' = 2
    /\ first_result' = result
    /\ result' = [tag |-> "None"]
    /\ pc' = "check_kmer_size"
    /\ pos' = 0
    /\ UNCHANGED <<seq, kmer_size, ds_factor, overflow_checks, mask, shift,
                   kmer_forward, kmer_reverse, valid_kmer_index, canonical_hashes>>
    /\ UNCHANGED <<index_vars, hash_vars, hp_vars, qual_vars>>

NextTwice ==
    \/ NextSketch
    \/ CallAgain

SpecTwice == InitSketch /\ [][NextTwice]_vars


-----------------------------------------------------------------------------
(* mm_hash64, statement by statement, on two keys (src/src/kmers/hash.rs) *)

\* two calls mm_hash64(hash_x) and mm_hash64(hash_y); line 7 has copied the
\* argument to key, and hash_pc is the line to run next
InitHash ==
    /\ hash_x \in HashInputs
    /\ hash_y \in HashInputs
    /\ key_x = hash_x
    /\ key_y = hash_y
    /\ hash_pc = 8
    /\ SketchIdle /\ IndexIdle /\ HpIdle /\ QualIdle

\* lines 8-14: one assignment to key, in both calls
HashStatement ==
    /\ hash_pc >= 8 /\ hash_pc <= 14
    /\ key_x' = HashLine(hash_pc, key_x)
    /\ key_y' = HashLine(hash_pc, key_y)
    /\ hash_pc' = hash_pc + 1
    /\ UNCHANGED <<hash_x, hash_y>>
    /\ UNCHANGED <<sketch_vars, index_vars, hp_vars, qual_vars>>

\* line 15: key is returned
HashReturn ==
    /\ hash_pc = 15
    /\ hash_pc' = 16
    /\ UNCHANGED <<hash_x, hash_y, key_x, key_y>>
    /\ UNCHANGED <<sketch_vars, index_vars, hp_vars, qual_vars>>

NextHash ==
    \/ HashStatement
    \/ HashReturn

SpecHash == InitHash /\ [][NextHash]_vars


-----------------------------------------------------------------------------
(* build_reverse_index, closure by closure (src/src/simd_sketch/index.rs) *)

\* the shard of the map that holds key h
ShardOf(h) == h % NumShards

\* mutant: the lookup and the write of an entry are not under the shard's lock
ShardNeverHeld(locks, s) == TRUE

\* line 18: map.entry(h) takes the write lock of h's shard and waits for it
ShardFree(locks, s) == locks[s] = {}

\* a batch of num_seqs sequences and a sketcher; sketches[i] is what
\* sketcher.sketch(seqs[i]) returns.  The closure of sequence i is task[i].
InitBatch ==
    /\ num_seqs \in 0..MaxSeqs
    /\ sketches \in [SeqIds(num_seqs) -> SUBSET Hashes]
    /\ map = <<>>
    /\ shard_lock = [s \in 0..(NumShards - 1) |-> {}]
    /\ task = [i \in SeqIds(num_seqs) |->
                  [pc |-> "sketch", hashes |-> {}, h |-> 0, kind |-> "None"]]
    /\ build_pc = "for_each"
    /\ returned = <<>>
    /\ SketchIdle /\ HashIdle /\ HpIdle /\ QualIdle

\* a build whose sketcher returns a set for every sequence
InitIndex ==
    /\ InitBatch
    /\ strategy = "MinimizerSketch" /\ window_size = 1

\* line 15
Sketch(i) ==
    /\ build_pc = "for_each"
    /\ task[i].pc = "sketch"
    /\ task' = [task EXCEPT ![i].pc = "for_h", ![i].hashes = sketches[i]]
    /\ UNCHANGED <<num_seqs, sketches, map, shard_lock, build_pc, returned>>
    /\ UNCHANGED <<strategy, window_size>>
    /\ UNCHANGED <<sketch_vars, hash_vars, hp_vars, qual_vars>>

\* lines 17-18: the loop takes the next hash of the set, in the set's order,
\* and map.entry(h) locks its shard and looks the key up
Entry(i, h) ==
    /\ task[i].pc = "for_h"
    /\ h \in task[i].hashes
    /\ ShardFree(shard_lock, ShardOf(h))
    /\ shard_lock' = [shard_lock EXCEPT ![ShardOf(h)] = @ \cup {i}]
    /\ task' = [task EXCEPT ![i].pc = "entry", ![i].h = h,
                            ![i].kind = EntryKind(map, h)]
    /\ UNCHANGED <<num_seqs, sketches, map, build_pc, returned>>
    /\ UNCHANGED <<strategy, window_size>>
    /\ UNCHANGED <<sketch_vars, hash_vars, hp_vars, qual_vars>>

\* lines 19-24: and_modify or or_insert_with on the entry, then the entry's
\* guard is dropped; FixedBitSet::set panics on a bit outside the bitset
AndModifyOrInsert(i) ==
    /\ task[i].pc = "entry"
    /\ LET h == task[i].h
           bitset == IF task[i].kind = "Occupied" THEN map[h]
                     ELSE WithCapacity(num_seqs)
       IN
       IF ~SetBitInRange(bitset, i)
       THEN /\ task' = [task EXCEPT ![i].pc = "panicked"]
            /\ UNCHANGED <<map, shard_lock>>
       ELSE /\ map' = Upsert(map, h, i, num_seqs, task[i].kind)
            /\ shard_lock' = [shard_lock EXCEPT ![ShardOf(h)] = @ \ {i}]
            /\ task' = [task EXCEPT ![i].pc = "for_h", ![i].hashes = @ \ {h}]
    /\ UNCHANGED <<num_seqs, sketches, build_pc, returned>>
    /\ UNCHANGED <<strategy, window_size>>
    /\ UNCHANGED <<sketch_vars, hash_vars, hp_vars, qual_vars>>

\* line 25: the loop over the hashes ends, and with it the closure
EndClosure(i) ==
    /\ task[i].pc = "for_h"
    /\ task[i].hashes = {}
    /\ task' = [task EXCEPT ![i].pc = "done"]
    /\ UNCHANGED <<num_seqs, sketches, map, shard_lock, build_pc, returned>>
    /\ UNCHANGED <<strategy, window_size>>
    /\ UNCHANGED <<sketch_vars, hash_vars, hp_vars, qual_vars>>

\* mutant: the map is returned without waiting for the closures
ReturnMapEarly ==
    /\ build_pc = "for_each"
    /\ build_pc' = "returned"
    /\ returned' = map
    /\ UNCHANGED <<num_seqs, sketches, map, shard_lock, task>>
    /\ UNCHANGED <<strategy, window_size>>
    /\ UNCHANGED <<sketch_vars, hash_vars, hp_vars, qual_vars>>

\* lines 26-28: for_each returns when every closure has, and the map is returned
ReturnMap ==
    /\ build_pc = "for_each"
    /\ \A i \in SeqIds(num_seqs) : task[i].pc = "done"
    /\ build_pc' = "returned"
    /\ returned' = map
    /\ UNCHANGED <<num_seqs, sketches, map, shard_lock, task>>
    /\ UNCHANGED <<strategy, window_size>>
    /\ UNCHANGED <<sketch_vars, hash_vars, hp_vars, qual_vars>>

NextIndex ==
    \/ \E i \in SeqIds(num_seqs) : Sketch(i)
    \/ \E i \in SeqIds(num_seqs) : \E h \in Hashes : Entry(i, h)
    \/ \E i \in SeqIds(num_seqs) : AndModifyOrInsert(i)
    \/ \E i \in SeqIds(num_seqs) : EndClosure(i)
    \/ ReturnMap

SpecIndex == InitIndex /\ [][NextIndex]_vars

\* lines 14-26: the closure of sequence i, any of its steps
Pass(i) ==
    /\ i \in SeqIds(num_seqs)
    /\ \/ Sketch(i)
       \/ \E h \in Hashes : Entry(i, h)
       \/ AndModifyOrInsert(i)
       \/ EndClosure(i)

\* the build under the scheduling of rayon's for_each: a closure that can
\* take a step is not suspended forever (each closure runs on a worker thread
\* until it ends, and waits only for the lock of a shard), and for_each
\* returns once every closure has ended
FairIndex ==
    /\ SpecIndex
    /\ \A i \in SeqIds(MaxSeqs) : WF_vars(Pass(i))
    /\ WF_vars(ReturnMap)


-----------------------------------------------------------------------------
(* build_reverse_index with a windowed strategy as its sketcher, the call of  *)
(* sketch spelled out (src/src/simd_sketch/minimizer.rs, closed_syncmer.rs,  *)
(* open_syncmer.rs)                                                          *)

Strategies == {"MinimizerSketch", "ClosedSyncmerSketch", "OpenSyncmerSketch"}

\* the window sizes a strategy is constructed with; the field is a pub usize
\* and nothing checks it
WindowSizes == {0, 1, 2}

InitBuild ==
    /\ InitBatch
    /\ strategy \in Strategies
    /\ window_size \in WindowSizes

\* minimizer.rs line 13, closed_syncmer.rs line 13, open_syncmer.rs line 13:
\* the first statement of sketch packs the sequence
FromAscii(i) ==
    /\ build_pc = "for_each"
    /\ task[i].pc = "sketch"
    /\ task' = [task EXCEPT ![i].pc = "packed"]
    /\ UNCHANGED <<num_seqs, sketches, map, shard_lock, build_pc, returned>>
    /\ UNCHANGED <<strategy, window_size>>
    /\ UNCHANGED <<sketch_vars, hash_vars, hp_vars, qual_vars>>

\* minimizer.rs lines 14-26, closed_syncmer.rs lines 14-19, open_syncmer.rs
\* lines 14-19: the extraction primitive of simd_minimizers runs on the packed
\* sequence and its values are collected into the set that sketch returns
Extract(i) ==
    /\ task[i].pc = "packed"
    /\ task' = [task EXCEPT ![i].pc = "for_h", ![i].hashes = sketches[i]]
    /\ UNCHANGED <<num_seqs, sketches, map, shard_lock, build_pc, returned>>
    /\ UNCHANGED <<strategy, window_size>>
    /\ UNCHANGED <<sketch_vars, hash_vars, hp_vars, qual_vars>>

\* the same lines: what the primitive does with a window size of 0 is not in
\* this repository; it returns as above or it panics
ExtractPanics(i) ==
    /\ task[i].pc = "packed"
    /\ window_size = 0
    /\ task' = [task EXCEPT ![i].pc = "sketch_panicked"]
    /\ UNCHANGED <<num_seqs, sketches, map, shard_lock, build_pc, returned>>
    /\ UNCHANGED <<strategy, window_size>>
    /\ UNCHANGED <<sketch_vars, hash_vars, hp_vars, qual_vars>>

\* index.rs line 14: for_each resumes the panic of a closure in its caller
\* once no closure is running, and build_reverse_index unwinds
ResumeUnwind ==
    /\ build_pc = "for_each"
    /\ \E i \in SeqIds(num_seqs) : task[i].pc \in {"sketch_panicked", "panicked"}
    /\ \A i \in SeqIds(num_seqs) :
           task[i].pc \in {"sketch", "done", "sketch_panicked", "panicked"}
    /\ build_pc' = "panicked"
    /\ UNCHANGED <<num_seqs, sketches, map, shard_lock, task, returned>>
    /\ UNCHANGED <<strategy, window_size>>
    /\ UNCHANGED <<sketch_vars, hash_vars, hp_vars, qual_vars>>

NextBuild ==
    \/ \E i \in SeqIds(num_seqs) : FromAscii(i)
    \/ \E i \in SeqIds(num_seqs) : Extract(i)
    \/ \E i \in SeqIds(num_seqs) : ExtractPanics(i)
    \/ \E i \in SeqIds(num_seqs) : \E h \in Hashes : Entry(i, h)
    \/ \E i \in SeqIds(num_seqs) : AndModifyOrInsert(i)
    \/ \E i \in SeqIds(num_seqs) : EndClosure(i)
    \/ ReturnMap
    \/ ResumeUnwind

SpecBuild == InitBuild /\ [][NextBuild]_vars


-----------------------------------------------------------------------------
(* find_homopolymers, statement by statement (src/src/nucleotide/homopolymer.rs) *)

\* a call of find_homopolymers(hp_seq, min_len, include_softmask); line 41
InitHp ==
    /\ hp_seq \in HpSeqs
    /\ min_len \in MinLens
    /\ include_softmask \in BOOLEAN
    /\ hp_i = 0 /\ hp_j = 0
    /\ hps = <<>>
    /\ hp_pc = "check_len"
    /\ hp_result = [tag |-> "None"]
    /\ SketchIdle /\ IndexIdle /\ HashIdle /\ QualIdle

\* lines 43-49
HpCheckLen ==
    /\ hp_pc = "check_len"
    /\ IF Len(hp_seq) < min_len
       THEN /\ hp_result' = [tag |-> "Ok", hps |-> hps]
            /\ hp_pc' = "returned"
            /\ UNCHANGED <<hp_i, hp_j>>
       ELSE /\ hp_i' = 0
            /\ hp_j' = 1
            /\ hp_pc' = "while_i"
            /\ UNCHANGED hp_result
    /\ UNCHANGED <<hp_seq, min_len, include_softmask, hps>>
    /\ UNCHANGED <<sketch_vars, index_vars, hash_vars, qual_vars>>

\* lines 51, 64: the test of the outer loop, and the return when it fails
HpWhileI ==
    /\ hp_pc = "while_i"
    /\ IF OuterLoopCond(hp_i, Len(hp_seq), min_len)
       THEN /\ hp_pc' = "while_j"
            /\ UNCHANGED hp_result
       ELSE /\ hp_result' = [tag |-> "Ok", hps |-> hps]
            /\ hp_pc' = "returned"
    /\ UNCHANGED <<hp_seq, min_len, include_softmask, hp_i, hp_j, hps>>
    /\ UNCHANGED <<sketch_vars, index_vars, hash_vars, qual_vars>>

\* lines 52-54: the test of the inner loop, which reads seq[j] and seq[i] only
\* when j < seq_len, and one increment of j; an index outside the slice panics
HpWhileJ ==
    /\ hp_pc = "while_j"
    /\ IF hp_j < Len(hp_seq)
       THEN IF ~(InBounds(hp_seq, hp_j) /\ InBounds(hp_seq, hp_i))
            THEN hp_pc' = "panicked" /\ UNCHANGED hp_j
            ELSE IF At(hp_seq, hp_j) = At(hp_seq, hp_i)
                 THEN hp_j' = hp_j + 1 /\ UNCHANGED hp_pc
                 ELSE hp_pc' = "valid" /\ UNCHANGED hp_j
       ELSE hp_pc' = "valid" /\ UNCHANGED hp_j
    /\ UNCHANGED <<hp_seq, min_len, include_softmask, hp_i, hps, hp_result>>
    /\ UNCHANGED <<sketch_vars, index_vars, hash_vars, qual_vars>>

\* lines 56-58: &seq[i] is evaluated for the call of valid_homopolymer, and
\* panics when i is outside the slice
HpPushIfValid ==
    /\ hp_pc = "valid"
    /\ IF ~InBounds(hp_seq, hp_i)
       THEN hp_pc' = "panicked" /\ UNCHANGED hps
       ELSE /\ hp_pc' = "advance"
            /\ hps' = IF valid_homopolymer(hp_i, hp_j, At(hp_seq, hp_i),
                                            min_len, include_softmask)
                       THEN Append(hps, <<hp_i, hp_j, At(hp_seq, hp_i), hp_j - hp_i>>)
                       ELSE hps
    /\ UNCHANGED <<hp_seq, min_len, include_softmask, hp_i, hp_j, hp_result>>
    /\ UNCHANGED <<sketch_vars, index_vars, hash_vars, qual_vars>>

\* lines 60-61
HpAdvance ==
    /\ hp_pc = "advance"
    /\ hp_i' = hp_j
    /\ hp_j' = hp_j + 1
    /\ hp_pc' = "while_i"
    /\ UNCHANGED <<hp_seq, min_len, include_softmask, hps, hp_result>>
    /\ UNCHANGED <<sketch_vars, index_vars, hash_vars, qual_vars>>

NextHp ==
    \/ HpCheckLen
    \/ HpWhileI
    \/ HpWhileJ
    \/ HpPushIfValid
    \/ HpAdvance

SpecHp == InitHp /\ [][NextHp]_vars


-----------------------------------------------------------------------------
(* mean_error_and_phred, statement by statement (src/src/nucleotide/metrics.rs) *)

\* a call of mean_error_and_phred(qual)
InitQual ==
    /\ qual \in Quals
    /\ qual_pos = 0
    /\ error_sum = <<>>
    /\ qual_pc = "check_empty"
    /\ qual_result = [tag |-> "None"]
    /\ SketchIdle /\ IndexIdle /\ HashIdle /\ HpIdle

\* lines 12-14
QualCheckEmpty ==
    /\ qual_pc = "check_empty"
    /\ IF Len(qual) = 0
       THEN /\ qual_result' = [tag |-> "Ok", error_sum |-> <<>>, len |-> 0, phred |-> 0]
            /\ qual_pc' = "returned"
       ELSE /\ qual_pc' = "map_sum"
            /\ UNCHANGED qual_result
    /\ UNCHANGED <<qual, qual_pos, error_sum>>
    /\ UNCHANGED <<sketch_vars, index_vars, hash_vars, hp_vars>>

\* lines 16-19: the iterator takes the next byte, the closure of map looks it
\* up in the table, and sum adds the entry; the f64 sum is kept as the
\* sequence of its terms
QualMapSum ==
    /\ qual_pc = "map_sum"
    /\ qual_pos < Len(qual)
    /\ LET phred == qual[qual_pos + 1] IN
       IF InTable(PHRED_TO_ERROR, phred)
       THEN /\ error_sum' = Append(error_sum, PHRED_TO_ERROR[phred])
            /\ qual_pos' = qual_pos + 1
            /\ UNCHANGED <<qual_pc, qual_result>>
       ELSE /\ qual_pc' = "panicked"
            /\ qual_result' = [tag |-> "Panic", index |-> phred]
            /\ UNCHANGED <<error_sum, qual_pos>>
    /\ UNCHANGED qual
    /\ UNCHANGED <<sketch_vars, index_vars, hash_vars, hp_vars>>

\* lines 21-22: the mean is error_sum / len, kept as the two; its Phred score
\* is known in the model when all the terms are the same score
QualReturn ==
    /\ qual_pc = "map_sum"
    /\ qual_pos = Len(qual)
    /\ qual_result' =
           [tag |-> "Ok", error_sum |-> error_sum, len |-> Len(qual),
            phred |-> IF \A p \in 1..Len(error_sum) : error_sum[p] = error_sum[1]
                      THEN error_sum[1] ELSE "mean"]
    /\ qual_pc' = "returned"
    /\ UNCHANGED <<qual, qual_pos, error_sum>>
    /\ UNCHANGED <<sketch_vars, index_vars, hash_vars, hp_vars>>

NextQual ==
    \/ QualCheckEmpty
    \/ QualMapSum
    \/ QualReturn

SpecQual == InitQual /\ [][NextQual]_vars


-----------------------------------------------------------------------------
(* Reference definitions the properties are stated with *)

\* the bytes the encoder takes as bases, by the documentation of NT_LOOKUP
\* (statics.rs lines 9-14) and its test of the raw bytes 0..3 (lines 48-60)
IsBase(byte) == NtLookup(byte) < 4

\* the 2-bit code of a base: A=0, C=1, G=2, T/U=3
Code(byte) == NtLookup(byte)

\* the digit of weight 4^e in the packing of the codes w, first code most
\* significant
Digit(w, e) == IF e < Len(w) THEN w[Len(w) - e] ELSE 0

PackLimb(w, l) ==
    LET e == 8 * (l - 1)
    IN  Digit(w, e) + 4 * Digit(w, e + 1) + 16 * Digit(w, e + 2)
        + 64 * Digit(w, e + 3) + 256 * Digit(w, e + 4) + 1024 * Digit(w, e + 5)
        + 4096 * Digit(w, e + 6) + 16384 * Digit(w, e + 7)

\* the 2-bit packing of at most 32 codes
Pack(w) == <<PackLimb(w, 1), PackLimb(w, 2), PackLimb(w, 3), PackLimb(w, 4)>>

\* the codes of the k bytes of s that end at position p (1-based)
Window(s, p, k) == SubSeq([i \in 1..p |-> Code(s[i])], p - k + 1, p)

\* the codes of the reverse complement of the window w
RcWindow(w) == SubSeq([j \in 1..Len(w) |-> 3 - w[Len(w) + 1 - j]], 1, Len(w))

Unambiguous(s, p, k) == p >= k /\ \A j \in (p - k + 1)..p : IsBase(s[j])

\* the canonical k-mer of the window that ends at p
CanonicalAt(s, p, k) ==
    LET f == Pack(Window(s, p, k))
        r == Pack(RcWindow(Window(s, p, k)))
    IN  IF Lt(f, r) THEN f ELSE r

\* 2^n - 1 for 0 <= n <= 64
AllOnes(n) ==
    [l \in 1..4 |-> IF n >= 16 * l THEN Limb - 1
                    ELSE IF n <= 16 * (l - 1) THEN 0
                    ELSE 2^(n - 16 * (l - 1)) - 1]

\* the parameters the documentation of frac_min_hash accepts, with the k-mer
\* size in the range a 64-bit packing holds
ValidParams ==
    /\ kmer_size >= 1 /\ kmer_size <= 32 /\ kmer_size <= Len(seq)
    /\ ds_factor >= 1 /\ ds_factor <= 200

Finished == pc \in {"returned", "panicked"}


-----------------------------------------------------------------------------
(* Properties of build_reverse_index, checked under SpecIndex *)

\* closure i has finished its upsert of hash h
Upserted(i, h) ==
    /\ h \in sketches[i]
    /\ task[i].pc \in {"for_h", "entry", "done"}
    /\ h \notin task[i].hashes

\* C1: in the map that build_reverse_index returns, for every hash h and every
\* sequence index i, h is a key with bit i set if and only if the sketch of
\* sequence i contains h; a hash in no sketch is not a key; and no key has an
\* all-zero bitset.
C1_MembershipIffInSketch ==
    build_pc = "returned" =>
        /\ \A h \in Hashes : \A i \in SeqIds(num_seqs) :
               (h \in DOMAIN returned /\ i \in returned[h].ones)
                   <=> h \in sketches[i]
        /\ \A h \in DOMAIN returned : \E i \in SeqIds(num_seqs) : h \in sketches[i]
        /\ \A h \in DOMAIN returned : returned[h].ones # {}

\* a returned index of two sequences with a hash they share and a hash only
\* one of them has
C1_Witness ==
    /\ build_pc = "returned"
    /\ num_seqs = 2
    /\ \E h \in Hashes : h \in sketches[0] /\ h \in sketches[1]
    /\ \E h \in Hashes : h \in sketches[0] /\ h \notin sketches[1]

\* the single-threaded build: the sequences 0..n-1 in order, each upserting
\* the hashes of its sketch one after the other
RECURSIVE UpsertAll(_, _, _, _)
UpsertAll(m, hs, i, n) ==
    IF hs = {} THEN m
    ELSE LET h == CHOOSE x \in hs : TRUE
         IN  UpsertAll(Upsert(m, h, i, n, EntryKind(m, h)), hs \ {h}, i, n)

RECURSIVE SequentialBuild(_, _, _)
SequentialBuild(m, i, n) ==
    IF i >= n THEN m
    ELSE SequentialBuild(UpsertAll(m, sketches[i], i, n), i + 1, n)

\* C2: whatever the interleaving of the closures, the returned map has the
\* keys and the bitsets of the single-threaded build over the same input.
C2_SameAsSequentialBuild ==
    build_pc = "returned" => returned = SequentialBuild(<<>>, 0, num_seqs)

\* a returned index in which two sequences upserted the same hash
C2_Witness ==
    /\ build_pc = "returned"
    /\ \E h \in DOMAIN returned : Cardinality(returned[h].ones) >= 2

\* C3: no two closures are inside the entry of the same key at the same time,
\* and the bit of every finished upsert is in the map: when two closures both
\* upsert a hash, the bitset has both bits.
C3_UpsertAtomicPerKey ==
    /\ \A i, j \in SeqIds(num_seqs) :
           (i # j /\ task[i].pc = "entry" /\ task[j].pc = "entry")
               => task[i].h # task[j].h
    /\ \A i \in SeqIds(num_seqs) : \A h \in Hashes :
           Upserted(i, h) => h \in DOMAIN map /\ i \in map[h].ones

\* closure i holds the entry of h, which it found vacant, while closure j,
\* whose sketch has h too, still has to upsert it
C3_Witness ==
    \E i, j \in SeqIds(num_seqs) :
        /\ i # j
        /\ task[i].pc = "entry" /\ task[i].kind = "Vacant"
        /\ task[j].pc = "for_h" /\ task[i].h \in task[j].hashes

\* C4: every bitset in the map has exactly num_seqs bits and only bits
\* 0..num_seqs-1 set, no closure writes a bit outside its bitset, and the map
\* returned for an empty batch is empty.
C4_BitsetLengthIsNumSeqs ==
    /\ \A h \in DOMAIN map :
           /\ map[h].length = num_seqs
           /\ map[h].ones \subseteq SeqIds(num_seqs)
    /\ \A i \in SeqIds(num_seqs) :
           /\ task[i].pc # "panicked"
           /\ task[i].pc = "entry" =>
                  /\ i < num_seqs
                  /\ task[i].h \in DOMAIN map => i < map[task[i].h].length
    /\ (build_pc = "returned" /\ num_seqs = 0) => returned = <<>>

\* the last sequence of a full batch has set its bit, the highest of the bitset
C4_Witness ==
    /\ num_seqs = MaxSeqs
    /\ \E h \in DOMAIN map : (num_seqs - 1) \in map[h].ones


-----------------------------------------------------------------------------
(* Properties of frac_min_hash, checked under SpecSketch *)

\* the set the documentation describes: the mixed hash of every canonical
\* k-mer of a window of k unambiguous bases whose packed value passes the
\* threshold
RefSketch(k, d, s) ==
    LET ends == {p \in 1..Len(s) : Unambiguous(s, p, k)}
        kept == {c \in {CanonicalAt(s, p, k) : p \in ends} :
                    Le(c, DivSmall(U64_MAX, d))}
    IN  {mm_hash64(c) : c \in kept}

\* the number of consecutive unambiguous bytes of s that end at position p
RECURSIVE RunLength(_, _)
RunLength(s, p) ==
    IF p = 0 \/ ~IsBase(s[p]) THEN 0 ELSE 1 + RunLength(s, p - 1)

\* C5: for valid parameters the sketch of a sequence equals the sketch of its
\* reverse complement (reverse_complement of seq.rs), for every byte sequence,
\* lower-case bases, U and ambiguity codes included.
C5_StrandSymmetry ==
    (ValidParams /\ Finished) =>
        result = frac_min_hash(kmer_size, ds_factor, reverse_complement(seq),
                               overflow_checks)

\* C6: for valid parameters frac_min_hash returns Ok of exactly the mixed
\* hashes of the canonical k-mers min(fwd(w), rc(w)) of the windows w of k
\* unambiguous bases with canonical value <= floor((2^64 - 1) / d); the
\* threshold is tested on the packed value, and with d = 1 every canonical
\* k-mer is retained.
C6_ExactSketch ==
    (ValidParams /\ Finished) =>
        result = [tag |-> "Ok", hashes |-> RefSketch(kmer_size, ds_factor, seq)]

\* C7: frac_min_hash returns InvalidParameterError when kmer_size > len(seq)
\* (tested first, message with kmer_size and the length) and when ds_factor
\* is 0 or above 200 (message with ds_factor and the range 1-200); 1 and 200
\* are accepted; no byte is encoded unless both checks have passed.
C7_ParameterErrors ==
    /\ (pc # "check_kmer_size" /\ kmer_size > Len(seq)) =>
           /\ pc = "returned"
           /\ result = [tag |-> "Err", kind |-> "InvalidParameterError",
                        msg |-> <<"kmer size ", kmer_size,
                                  " cannot be longer than sequence len ",
                                  Len(seq), ".">>]
    /\ (pc \notin {"check_kmer_size", "check_ds_factor"}
        /\ kmer_size <= Len(seq) /\ (ds_factor = 0 \/ ds_factor > 200)) =>
           /\ pc = "returned"
           /\ result = [tag |-> "Err", kind |-> "InvalidParameterError",
                        msg |-> <<"downsampling factor ", ds_factor,
                                  " must be in range 1-200.">>]
    /\ (kmer_size <= Len(seq) /\ ds_factor >= 1 /\ ds_factor <= 200) =>
           result.tag # "Err"
    /\ (pos > 0 \/ canonical_hashes # {} \/ pc \in {"for_each", "panicked"}) =>
           (kmer_size <= Len(seq) /\ ds_factor >= 1 /\ ds_factor <= 200)

\* a call with both parameters invalid has returned the error of the k-mer size
C7_Witness ==
    /\ pc = "returned"
    /\ result.tag = "Err"
    /\ kmer_size > Len(seq)
    /\ ds_factor = 0

\* C8: a k-mer size outside 1..32 is reported as InvalidParameterError before
\* any encoding work; frac_min_hash never computes the mask and the shift for
\* it, and never panics or wraps on it.
C8_KmerSizeDomainChecked ==
    (kmer_size < 1 \/ kmer_size > 32) =>
        /\ pc \notin {"for_each", "panicked"}
        /\ pc = "returned" =>
               result.tag = "Err" /\ result.kind = "InvalidParameterError"

\* C9: for every k-mer size 1..32 the mask is 2^(2k) - 1 and the shift 2(k-1),
\* computed without overflow; after each valid base the forward accumulator
\* is the packing of the last k bases (of all of them while fewer than k have
\* been seen); and the canonical k-mer of every full unambiguous window that
\* passes the threshold is in the result.
C9_NoOverflowUpTo32 ==
    ValidParams =>
        /\ pc # "panicked"
        /\ pc = "for_each" =>
               /\ mask = AllOnes(2 * kmer_size)
               /\ shift = U64(2 * (kmer_size - 1))
               /\ (pos >= 1 /\ IsBase(seq[pos])) =>
                      kmer_forward =
                          Pack(Window(seq, pos,
                                      IF valid_kmer_index < kmer_size
                                      THEN valid_kmer_index ELSE kmer_size))
        /\ (pc = "returned" /\ result.tag = "Ok") =>
               \A p \in 1..Len(seq) :
                   (Unambiguous(seq, p, kmer_size)
                    /\ Le(CanonicalAt(seq, p, kmer_size), DivSmall(U64_MAX, ds_factor)))
                       => mm_hash64(CanonicalAt(seq, p, kmer_size)) \in result.hashes

\* C10: an ambiguous byte resets both accumulators and the count of valid
\* bases, so the window is full only when the k bytes that end at the
\* position are unambiguous; and a sequence of length >= k with no run of k
\* unambiguous bases yields Ok of the empty set.
C10_AmbiguousReset ==
    /\ (pc = "for_each" /\ pos >= 1 /\ ~IsBase(seq[pos])) =>
           /\ kmer_forward = U64(0)
           /\ kmer_reverse = U64(0)
           /\ valid_kmer_index = 0
    /\ (pc = "for_each" /\ pos >= 1 /\ IsBase(seq[pos])
        /\ WindowFull(valid_kmer_index - 1, kmer_size)) =>
           Unambiguous(seq, pos, kmer_size)
    /\ (ValidParams /\ Finished
        /\ \A p \in 1..Len(seq) : RunLength(seq, p) < kmer_size) =>
           result = [tag |-> "Ok", hashes |-> {}]

\* h is in the sketch that the call returned
InSketch(r, h) == r.tag = "Ok" /\ h \in r.hashes

\* s and the contiguous substrings of s that drop its first byte, its last
\* byte, or both
Substrings(s) ==
    IF Len(s) = 0 THEN {s}
    ELSE {s, SubSeq(s, 2, Len(s)), SubSeq(s, 1, Len(s) - 1), SubSeq(s, 2, Len(s) - 1)}

\* the canonical k-mers of the windows of k unambiguous bases of s
CanonicalKmers(s, k) ==
    {CanonicalAt(s, p, k) : p \in {q \in 1..Len(s) : Unambiguous(s, q, k)}}

\* the sequences a sketch of s is compared with: its substrings, and the
\* named sequences of its length
PairSeqs(s) ==
    (Substrings(s) \cup {t \in NamedSeqs : Len(t) = Len(s)}) \ {s}

\* C11: for fixed (k, d) and two sequences that both have a window with the
\* canonical k-mer c, mm_hash64(c) is in the sketch of the one if and only if
\* it is in the sketch of the other, whatever the positions of the windows;
\* and the sketch of a contiguous substring is a subset of the sketch of the
\* sequence.
C11_CrossSequenceAgreement ==
    (ValidParams /\ Finished) =>
        \E cs1 \in {CanonicalKmers(seq, kmer_size)} :
        \A s2 \in PairSeqs(seq) :
            kmer_size <= Len(s2) =>
                \E r2 \in {frac_min_hash(kmer_size, ds_factor, s2, overflow_checks)} :
                    /\ \A c \in cs1 \cap CanonicalKmers(s2, kmer_size) :
                           InSketch(result, mm_hash64(c)) <=> InSketch(r2, mm_hash64(c))
                    /\ (s2 \in Substrings(seq) /\ result.tag = "Ok" /\ r2.tag = "Ok") =>
                           r2.hashes \subseteq result.hashes

\* a sketch with d >= 2 and another sequence that shares with it a canonical
\* k-mer that is retained and a canonical k-mer, at another position, that
\* is discarded
C11_Witness ==
    /\ pc = "returned" /\ result.tag = "Ok" /\ ds_factor >= 2
    /\ \E s2 \in PairSeqs(seq) :
           /\ kmer_size <= Len(s2)
           /\ \E c \in CanonicalKmers(seq, kmer_size) \cap CanonicalKmers(s2, kmer_size) :
                  mm_hash64(c) \in result.hashes
           /\ \E p1 \in 1..Len(seq) : \E p2 \in 1..Len(s2) :
                  /\ p1 # p2
                  /\ Unambiguous(seq, p1, kmer_size)
                  /\ Unambiguous(s2, p2, kmer_size)
                  /\ CanonicalAt(seq, p1, kmer_size) = CanonicalAt(s2, p2, kmer_size)
                  /\ mm_hash64(CanonicalAt(seq, p1, kmer_size)) \notin result.hashes

\* C12: for every k-mer size 1..32 and every factor d in 2..200 the retention
\* test discards a share of the packed k-mer values below 2^(2k) (about
\* 1 - 1/d of them); the test is monotone, so at the least the largest value
\* of that size, 2^(2k) - 1, is discarded.
C12_RetentionRate ==
    (ValidParams /\ ds_factor >= 2) =>
        ~Retained(AllOnes(2 * kmer_size), ds_factor)

\* C13: for a fixed sequence and k-mer size and factors 1 <= d1 <= d2 <= 200,
\* the sketch with d2 is a subset of the sketch with d1.
C13_MonotoneDownsampling ==
    (ValidParams /\ Finished) =>
        \A d1 \in {d \in DsFactors : d >= 1 /\ d < ds_factor} :
            \E r1 \in {frac_min_hash(kmer_size, d1, seq, overflow_checks)} :
                /\ r1.tag = result.tag
                /\ result.tag = "Ok" => result.hashes \subseteq r1.hashes

\* a sketch with d >= 2 that is not empty and is strictly smaller than the
\* sketch with d = 1
C13_Witness ==
    /\ pc = "returned" /\ result.tag = "Ok" /\ ds_factor >= 2
    /\ result.hashes # {}
    /\ result.hashes # frac_min_hash(kmer_size, 1, seq, overflow_checks).hashes

-----------------------------------------------------------------------------
(* Properties of mm_hash64, checked under SpecHash *)

\* the x with x + (x << s1) + (x << s2) = y modulo 2^64 (s2 = 64 for a single
\* shift), by fixed-point iteration: each round settles s1 more low bits
RECURSIVE InvAddShl(_, _, _, _, _)
InvAddShl(y, x, s1, s2, rounds) ==
    IF rounds = 0 THEN x
    ELSE LET hi == IF s2 >= 64 THEN U64(0) ELSE Shl(x, s2)
             nx == WrappingSub(WrappingSub(y, Shl(x, s1)), hi)
         IN  IF nx[1] >= 0 THEN InvAddShl(y, nx, s1, s2, rounds - 1) ELSE nx

\* the x with x ^ (x >> s) = y, likewise from the high bits down
RECURSIVE InvXorShr(_, _, _, _)
InvXorShr(y, x, s, rounds) ==
    IF rounds = 0 THEN x
    ELSE LET nx == BitXor(y, Shr(x, s))
         IN  IF nx[1] >= 0 THEN InvXorShr(y, nx, s, rounds - 1) ELSE nx

\* the inverse of the statement of each line of hash.rs
InvHashLine(line, y) ==
    CASE line = 8  -> InvAddShl(BitNot(y), BitNot(y), 21, 64, 4)
      [] line = 9  -> InvXorShr(y, y, 24, 3)
      [] line = 10 -> InvAddShl(y, y, 3, 8, 22)
      [] line = 11 -> InvXorShr(y, y, 14, 5)
      [] line = 12 -> InvAddShl(y, y, 2, 4, 32)
      [] line = 13 -> InvXorShr(y, y, 28, 3)
      [] line = 14 -> InvAddShl(y, y, 31, 64, 3)

RECURSIVE InvHashFrom(_, _)
InvHashFrom(line, y) ==
    IF line < 8 THEN y ELSE InvHashFrom(line - 1, InvHashLine(line, y))

\* C14: mm_hash64 is injective and invertible on u64: after every statement
\* two different keys are still different and the argument is recovered from
\* the key by the inverses of the statements run so far; every value is the
\* hash of its preimage; and mm_hash64(0) differs from mm_hash64(1) and from 0.
C14_HashInvertible ==
    /\ hash_x # hash_y => key_x # key_y
    /\ hash_pc >= 8 =>
           InvHashFrom(IF hash_pc >= 15 THEN 14 ELSE hash_pc - 1, key_x) = hash_x
    /\ hash_pc = 16 =>
           /\ key_x = mm_hash64(hash_x)
           /\ mm_hash64(InvHashFrom(14, hash_y)) = hash_y
           /\ (hash_x = U64(0) /\ hash_y = U64(1)) => key_x # key_y
           /\ hash_x = U64(0) => key_x # U64(0)

\* both calls have returned, for two keys that differ only in a bit that the
\* shift of line 8 drops
C14_Witness ==
    /\ hash_pc = 16
    /\ hash_x = U64(0)
    /\ hash_y = <<0, 0, 2048, 0>>
    /\ key_x # key_y

-----------------------------------------------------------------------------
(* Properties of repeated calls of frac_min_hash, checked under SpecTwice *)

-----------------------------------------------------------------------------
(* Properties of the windowed strategies in a build, checked under SpecBuild *)

\* C16: a windowed strategy invoked with window_size = 0 fails with an
\* InvalidParameter error before any encoding or extraction: its call of
\* sketch never gets to pack the sequence, run the primitive or return a set.
C16_WindowSizeChecked ==
    window_size = 0 =>
        \A i \in SeqIds(num_seqs) : task[i].pc \in {"sketch", "invalid_parameter"}

\* the sketch computation of sequence i has failed: it was invoked with a
\* window size outside the domain of the strategy, or it panicked
SketchFailed(i) ==
    \/ task[i].pc # "sketch" /\ window_size = 0
    \/ task[i].pc = "sketch_panicked"

-----------------------------------------------------------------------------
(* Properties of NT_LOOKUP in the encoder, checked under SpecLookup *)

\* the code the documentation of NT_LOOKUP gives a byte: A/a = 0, C/c = 1,
\* G/g = 2, T/t/U/u = 3, every other byte 4
LetterCode(b) ==
    CASE b \in {65, 97} -> 0
      [] b \in {67, 99} -> 1
      [] b \in {71, 103} -> 2
      [] b \in {84, 116, 85, 117} -> 3
      [] OTHER -> 4

\* what the encoder has done with the one byte of the sequence when the
\* table gives it the code c: a base is shifted into the window, which is
\* then full, and any other byte resets the window
EncodedAs(c) ==
    /\ (pc = "for_each" /\ pos = 1) =>
           IF c < 4
           THEN valid_kmer_index = 1 /\ kmer_forward = U64(c)
           ELSE valid_kmer_index = 0 /\ kmer_forward = U64(0)
    /\ pc = "returned" =>
           result = [tag |-> "Ok",
                     hashes |-> IF c < 4
                                THEN {mm_hash64(Canonical(U64(c), U64(3 - c)))}
                                ELSE {}]

-----------------------------------------------------------------------------
(* Properties of find_homopolymers, checked under SpecHp *)

\* C19: find_homopolymers is infallible for every sequence, every min_len >= 0
\* and either include_softmask: it never reads seq at an index >= seq.len()
\* (which would panic), its indices stay within the sequence where they are
\* read, and it returns Ok.
C19_Infallible ==
    /\ hp_pc # "panicked"
    /\ hp_pc = "valid" => hp_i < Len(hp_seq)
    /\ hp_pc = "returned" => hp_result.tag = "Ok"

\* the maximal runs of identical bytes of s, as 0-based half-open intervals
MaximalRuns(s) ==
    {r \in (0..Len(s)) \X (0..Len(s)) :
        /\ r[1] < r[2]
        /\ \A x \in r[1]..(r[2] - 1) : At(s, x) = At(s, r[1])
        /\ r[1] = 0 \/ At(s, r[1] - 1) # At(s, r[1])
        /\ r[2] = Len(s) \/ At(s, r[2]) # At(s, r[1])}

\* the tuples find_homopolymers is to report
ExpectedHps(s, min_len_, include_softmask_) ==
    {<<r[1], r[2], At(s, r[1]), r[2] - r[1]>> :
        r \in {q \in MaximalRuns(s) :
                  /\ q[2] - q[1] >= min_len_
                  /\ include_softmask_ \/ IsAsciiUppercase(At(s, q[1]))}}

\* C20: for min_len >= 1 find_homopolymers returns, in ascending start order
\* and without overlap, exactly one tuple (start, end, byte, end - start) for
\* every maximal run of identical bytes of length >= min_len, only the runs of
\* an upper-case byte when include_softmask is false; it does not panic.
C20_ExactlyTheMaximalRuns ==
    min_len >= 1 =>
        /\ hp_pc # "panicked"
        /\ hp_pc = "returned" =>
               /\ hp_result.tag = "Ok"
               /\ {hp_result.hps[n] : n \in 1..Len(hp_result.hps)}
                      = ExpectedHps(hp_seq, min_len, include_softmask)
               /\ \A n \in 1..(Len(hp_result.hps) - 1) :
                      /\ hp_result.hps[n][1] < hp_result.hps[n + 1][1]
                      /\ hp_result.hps[n][2] <= hp_result.hps[n + 1][1]

\* a returned list of two runs, the second of length exactly min_len and
\* ending at the end of the sequence, where the outer loop makes its last pass
C20_Witness ==
    /\ hp_pc = "returned"
    /\ min_len >= 2
    /\ Len(hp_result.hps) = 2
    /\ hp_result.hps[2][2] = Len(hp_seq)
    /\ hp_result.hps[2][4] = min_len

-----------------------------------------------------------------------------
(* Properties of the two accumulators of frac_min_hash, checked under       *)
(* SpecSketch                                                                *)

\* the k 2-bit codes a packed value holds, first code most significant
Unpack(v, k) ==
    SubSeq([j \in 1..k |->
               LET e == k - j
               IN  (v[(e \div 8) + 1] \div 4^(e % 8)) % 4],
           1, k)

\* at least k consecutive valid bases have been consumed, the last of them
\* by the step that led here: that step tested line 70 to true
Emitting ==
    /\ pc = "for_each"
    /\ pos >= 1
    /\ IsBase(seq[pos])
    /\ valid_kmer_index >= kmer_size

\* C21: in a call with valid parameters (k-mer size 1..32), after every
\* consumed base both accumulators are below 2^(2k), and at every step where
\* a k-mer is emitted the reverse accumulator is the packing of the reverse
\* complement of the window the forward accumulator holds.
C21_Lockstep ==
    (ValidParams /\ pc = "for_each") =>
        /\ Le(kmer_forward, AllOnes(2 * kmer_size))
        /\ Le(kmer_reverse, AllOnes(2 * kmer_size))
        /\ Emitting =>
               kmer_reverse = Pack(RcWindow(Unpack(kmer_forward, kmer_size)))

-----------------------------------------------------------------------------
(* Properties of the passes of build_reverse_index, checked under FairIndex *)

\* the pass of sequence i has begun, has ended
PassBegun(i) == task[i].pc # "sketch"
PassDone(i) == task[i].pc = "done"

\* C22: a build over N sequences has one insertion pass per index 0..N-1; a
\* pass that has begun never begins again and a pass that has ended stays
\* ended; the map is returned only when all N passes have ended; and under a
\* fair scheduling of the workers every pass ends and the map is returned.
C22_ExactlyNPasses ==
    /\ [](DOMAIN task = 0..(num_seqs - 1))
    /\ [][\A i \in SeqIds(num_seqs) :
              /\ PassBegun(i) => PassBegun(i)'
              /\ PassDone(i) => PassDone(i)']_vars
    /\ [](build_pc = "returned" => \A i \in SeqIds(num_seqs) : PassDone(i))
    /\ <>(build_pc = "returned" /\ \A i \in SeqIds(num_seqs) : PassDone(i))

\* a build of at least two sequences has returned a map with a key that two
\* passes have written
C22_Witness ==
    /\ build_pc = "returned"
    /\ num_seqs >= 2
    /\ \E h \in DOMAIN returned : Cardinality(returned[h].ones) >= 2

-----------------------------------------------------------------------------
(* Properties of the steps of build_reverse_index, checked under SpecIndex  *)

\* every key of m is a key of n, with every bit it has in m and the same length
Extends(m, n) ==
    \A h \in DOMAIN m :
        /\ h \in DOMAIN n
        /\ m[h].ones \subseteq n[h].ones
        /\ n[h].length = m[h].length

\* C23: in every step of every closure a key of the map stays a key and a bit
\* that is set stays set: no step removes a key, clears a bit or replaces a
\* bitset by a fresh one; a step changes at most one key, by one bit; and the
\* map that has been returned does not change.
C23_IndexOnlyGrows ==
    [][/\ Extends(map, map')
       /\ \A i \in SeqIds(num_seqs) :
              (task[i].pc = "entry" /\ task'[i].pc = "for_h") =>
                  /\ DOMAIN map' = DOMAIN map \cup {task[i].h}
                  /\ i \in map'[task[i].h].ones
                  /\ \A h \in DOMAIN map : h # task[i].h => map'[h] = map[h]
       /\ build_pc = "returned" => (map' = map /\ returned' = returned)]_vars

\* a closure is about to set its bit in a bitset that holds the bit of another
\* sequence
C23_Witness ==
    /\ build_pc = "for_each"
    /\ \E i \in SeqIds(num_seqs) :
           /\ task[i].pc = "entry"
           /\ task[i].kind = "Occupied"
           /\ map[task[i].h].ones # {}
           /\ i \notin map[task[i].h].ones

-----------------------------------------------------------------------------
(* Properties of mean_error_and_phred, checked under SpecQual *)

\* C24: mean_error_and_phred never indexes PHRED_TO_ERROR out of bounds: the
\* byte it is about to look up is an index of the table, for every byte 0..255
\* of the quality string, and no call panics.
C24_LookupInBounds ==
    /\ (qual_pc = "map_sum" /\ qual_pos < Len(qual)) =>
           InTable(PHRED_TO_ERROR, qual[qual_pos + 1])
    /\ qual_pc # "panicked"

=============================================================================
